---- MODULE Spec2Model ----
(***************************************************************************)
(* Lemma Analyzer API (backend/app/main.py): the /api/analyze handler, the *)
(* lazily constructed pymorphy3 analyzer and the lru_cache-wrapped         *)
(* _analyze_token_cached, run by the worker threads of the server.         *)
(*                                                                         *)
(* A text is represented by its segmentation: the sequence of whitespace   *)
(* runs (" ") and of the substrings razdel's tokenizer yields for it.      *)
(* Russian words are written in Latin transliteration (Koty, i, dom).      *)
(* Python's None is the string NoneVal, which differs from every str the   *)
(* program handles, the empty str included.                                *)
(***************************************************************************)
EXTENDS Integers, Sequences, FiniteSets, TLC

\* ------------------------------------------------------------- bounds
\* Worker threads serving requests concurrently.
NThreads == 2
\* Longest text (in segments) of a request of the concurrent specification.
MaxLenConc == 1
\* Longest text (in segments) of the request of the single-request specification.
MaxLenSeq == 4
\* lru_cache(maxsize=20000), scaled down so that the cache fills and evicts.
maxsize == 2

Threads == 1..NThreads

NoneVal == "None"

\* ------------------------------------------------------------- texts
Space == " "
\* Segments of the concurrent specification and of the single-request one.
ConcSegments == {Space, "Koty", "i", "dom"}
SeqSegments == {Space, "Koty", "i", "dom", "qq", "cat", "dom5"}

RECURSIVE SeqsUpTo(_, _)
SeqsUpTo(S, n) ==
    IF n = 0 THEN {<<>>}
    ELSE LET shorter == SeqsUpTo(S, n - 1)
         IN  shorter \cup {Append(s, x) : s \in {r \in shorter : Len(r) = n - 1}, x \in S}

ConcTexts == SeqsUpTo(ConcSegments, MaxLenConc)
SeqTexts == SeqsUpTo(SeqSegments, MaxLenSeq)

\* Field(..., min_length=1)
min_length == 1

\* str.strip(): leading and trailing whitespace removed.
RECURSIVE LStrip(_)
LStrip(text) ==
    IF text # <<>> /\ Head(text) = Space THEN LStrip(Tail(text)) ELSE text

RECURSIVE RStrip(_)
RStrip(text) ==
    IF text # <<>> /\ text[Len(text)] = Space
    THEN RStrip(SubSeq(text, 1, Len(text) - 1))
    ELSE text

\* Faulty variant: the text is not stripped.
StripIdentity(text) == text

Strip(text) == RStrip(LStrip(text))

\* str.lower() of a segment.
Lower(seg) == IF seg = "Koty" THEN "koty" ELSE seg

\* _ALPHA_RE.fullmatch(t): the whole token is Latin/Cyrillic letters.
AlphaFullMatch(t) == t \in {"koty", "Koty", "i", "dom", "qq", "cat"}

\* razdel_tokenize(text): the non-whitespace segments, in text order.
RazdelTokenize(text) == SelectSeq(text, LAMBDA seg : seg # Space)

\* alpha_tokens: lowercased tokens that are alphabetic in their entirety.
RECURSIVE AlphaTokens(_)
AlphaTokens(toks) ==
    IF toks = <<>> THEN <<>>
    ELSE LET t == Lower(Head(toks))
         IN  IF AlphaFullMatch(t)
             THEN <<t>> \o AlphaTokens(Tail(toks))
             ELSE AlphaTokens(Tail(toks))

\* ------------------------------------------------------------- analyzer
\* analyzer.parse(token): the candidate parses, most confident first.
Parse(token) ==
    CASE token = "koty" -> << [normal_form |-> "kot", POS |-> "NOUN"] >>
      [] token = "dom"  -> << [normal_form |-> "dom", POS |-> "NOUN"],
                              [normal_form |-> "doma", POS |-> "ADVB"] >>
      [] token = "i"    -> << [normal_form |-> "i", POS |-> "CONJ"],
                              [normal_form |-> "i", POS |-> "INTJ"] >>
      [] token = "cat"  -> << [normal_form |-> "cat", POS |-> NoneVal] >>
      [] OTHER          -> << >>

\* `_pymorphy_analyzer = None`; an instance is numbered by its construction.
NoAnalyzer == 0

\* Body of _analyze_token_cached, given the value read from _pymorphy_analyzer.
AnalyzeToken(analyzer, token) ==
    IF analyzer = NoAnalyzer THEN <<NoneVal, NoneVal>>
    ELSE LET parsed == Parse(token)
         IN  IF parsed = <<>> THEN <<NoneVal, NoneVal>>
             ELSE <<parsed[1].normal_form, parsed[1].POS>>

stop_pos == {"PREP", "CONJ", "PRCL", "INTJ"}

\* Faulty variant: no category is filtered.
IsStopDropsNothing(pos) == FALSE

\* `if pos and pos in stop_pos`
IsStop(pos) == pos # NoneVal /\ pos # "" /\ pos \in stop_pos

\* Python truthiness of a str.
Truthy(s) == s # NoneVal /\ s # ""

\* ------------------------------------------------------------- lru_cache
\* functools.lru_cache(maxsize): lookup and store are each atomic, the
\* wrapped call between them is not. The cache is the sequence of its
\* entries, least recently used first.
Keys(c) == {c[i].key : i \in 1..Len(c)}

HasKey(c, key) == key \in Keys(c)

IndexOf(c, key) == CHOOSE i \in 1..Len(c) : c[i].key = key

\* Faulty variant: a hit returns the newest entry's result.
CacheValueOfNewest(c, key) == c[Len(c)].val

\* The result stored under key.
CacheValue(c, key) == c[IndexOf(c, key)].val

\* Faulty variant: a hit does not refresh the entry.
LruHitKeepsOrder(c, key) == c

\* A hit moves the entry to the most recently used end.
LruHit(c, key) ==
    LET i == IndexOf(c, key)
    IN  SubSeq(c, 1, i - 1) \o SubSeq(c, i + 1, Len(c)) \o <<c[i]>>

\* Faulty variant: the key is not tested again after the call.
LruStoreNoRecheck(c, key, val) ==
    LET e == [key |-> key, val |-> val]
    IN  IF Len(c) < maxsize THEN Append(c, e) ELSE Append(Tail(c), e)

\* After the wrapped call returned: nothing if the key was added meanwhile,
\* else a new entry, in place of the least recently used one when full.
LruStore(c, key, val) ==
    LET e == [key |-> key, val |-> val]
    IN  IF HasKey(c, key) THEN c
        ELSE IF Len(c) < maxsize THEN Append(c, e)
        ELSE Append(Tail(c), e)

\* ------------------------------------------------------------- Counter
\* A Counter is the sequence of its <<key, count>> items in insertion order.
CounterKeys(cnt) == {cnt[i][1] : i \in 1..Len(cnt)}

\* counter[key] += 1
Increment(cnt, key) ==
    IF key \in CounterKeys(cnt)
    THEN [i \in 1..Len(cnt) |->
            IF cnt[i][1] = key THEN <<key, cnt[i][2] + 1>> ELSE cnt[i]]
    ELSE Append(cnt, <<key, 1>>)

\* Counter(iterable)
RECURSIVE CountInto(_, _)
CountInto(cnt, stream) ==
    IF stream = <<>> THEN cnt
    ELSE CountInto(Increment(cnt, Head(stream)), Tail(stream))

Counter(stream) == CountInto(<<>>, stream)

\* sorted(..., key=itemgetter(1), reverse=True): an item goes after every
\* item whose count is at least its own, so equal counts keep their order.
InsertRanked(ranked, item) ==
    LET before == {i \in 1..Len(ranked) : ranked[i][2] >= item[2]}
        n == Cardinality(before)
    IN  SubSeq(ranked, 1, n) \o <<item>> \o SubSeq(ranked, n + 1, Len(ranked))

RECURSIVE SortInto(_, _)
SortInto(ranked, items) ==
    IF items = <<>> THEN ranked
    ELSE SortInto(InsertRanked(ranked, Head(items)), Tail(items))

\* Faulty variant: a sort that puts equal counts in reverse order.
InsertRankedUnstable(ranked, item) ==
    LET before == {i \in 1..Len(ranked) : ranked[i][2] > item[2]}
        n == Cardinality(before)
    IN  SubSeq(ranked, 1, n) \o <<item>> \o SubSeq(ranked, n + 1, Len(ranked))

RECURSIVE SortIntoUnstable(_, _)
SortIntoUnstable(ranked, items) ==
    IF items = <<>> THEN ranked
    ELSE SortIntoUnstable(InsertRankedUnstable(ranked, Head(items)), Tail(items))

MostCommonUnstable(cnt) == SortIntoUnstable(<<>>, cnt)

\* Counter.most_common()
MostCommon(cnt) == SortInto(<<>>, cnt)

\* ------------------------------------------------------------- n-grams
RECURSIVE BigramLoop(_, _, _)
BigramLoop(cnt, stream, i) ==
    IF i > Len(stream) - 1 THEN cnt
    ELSE LET left == stream[i]
             right == stream[i + 1]
         IN  BigramLoop(IF Truthy(left) /\ Truthy(right)
                        THEN Increment(cnt, left \o " " \o right)
                        ELSE cnt,
                        stream, i + 1)

\* Faulty variant: a repeated window is counted once.
BigramCountsDeduplicated(stream) ==
    LET cnt == BigramLoop(<<>>, stream, 1)
    IN  [i \in 1..Len(cnt) |-> <<cnt[i][1], 1>>]

\* bigram_counts
BigramCounts(stream) ==
    IF Len(stream) >= 2 THEN BigramLoop(<<>>, stream, 1) ELSE <<>>

RECURSIVE TrigramLoop(_, _, _)
TrigramLoop(cnt, stream, i) ==
    IF i > Len(stream) - 2 THEN cnt
    ELSE LET a == stream[i]
             b == stream[i + 1]
             c == stream[i + 2]
         IN  TrigramLoop(IF Truthy(a) /\ Truthy(b) /\ Truthy(c)
                         THEN Increment(cnt, a \o " " \o b \o " " \o c)
                         ELSE cnt,
                         stream, i + 1)

\* trigram_counts
TrigramCounts(stream) ==
    IF Len(stream) >= 3 THEN TrigramLoop(<<>>, stream, 1) ELSE <<>>

\* Faulty variant: the threshold is cnt >= 1.
DisplayedWithSingletons(ranked) == SelectSeq(ranked, LAMBDA it : it[2] >= 1)

\* `... for bg, cnt in counts.most_common() if cnt > 1`
Displayed(ranked) == SelectSeq(ranked, LAMBDA it : it[2] > 1)

\* max(len(lemmas_wo_stop) - k, 0)
WindowTotal(stream, k) == IF Len(stream) - k >= 0 THEN Len(stream) - k ELSE 0

\* ------------------------------------------------------------- state
VARIABLES
    pymorphy_analyzer,  \* the global _pymorphy_analyzer
    cache,              \* the lru_cache of _analyze_token_cached
    req,                \* per thread: the request it serves and analyze's locals
    obs,                \* per thread: what its current request has done so far
    call,               \* per thread: its latest _analyze_token_cached call
    constructed,        \* MorphAnalyzer() calls that returned an instance
    constructionFailed, \* some MorphAnalyzer() call has raised
    absentComputed      \* keys whose entry was computed with no analyzer

vars == <<pymorphy_analyzer, cache, req, obs, call, constructed, constructionFailed,
          absentComputed>>

NoCounts == [raw |-> <<>>, filtered |-> <<>>, bigram |-> <<>>, trigram |-> <<>>]

NoResponse ==
    [language |-> NoneVal, total_tokens |-> 0, unique_lemmas |-> 0,
     items |-> <<>>, items_filtered |-> <<>>,
     total_bigrams |-> 0, unique_bigrams |-> 0, bigrams |-> <<>>,
     total_trigrams |-> 0, unique_trigrams |-> 0, trigrams |-> <<>>]

\* A thread with no request: status 0 is "no response sent".
Idle ==
    [pc |-> "idle", text |-> <<>>, stripped |-> <<>>, alpha_tokens |-> <<>>,
     idx |-> 1, result |-> <<NoneVal, NoneVal>>, absent |-> FALSE,
     lemmas_raw |-> <<>>, lemmas |-> <<>>, counts |-> NoCounts,
     response |-> NoResponse, status |-> 0]

NoEffects == [constructs |-> 0, parses |-> 0, inserts |-> 0, hits |-> 0, misses |-> 0]

NoCall == [token |-> NoneVal, hit |-> FALSE, parses |-> 0, inserts |-> 0,
           done |-> FALSE]

Init ==
    /\ pymorphy_analyzer = NoAnalyzer
    /\ cache = <<>>
    /\ req = [t \in Threads |-> Idle]
    /\ obs = [t \in Threads |-> NoEffects]
    /\ call = [t \in Threads |-> NoCall]
    /\ constructed = 0
    /\ constructionFailed = FALSE
    /\ absentComputed = {}

\* ------------------------------------------------------------- analyze
\* POST /api/analyze arrives with body {text: txt}, txt one of Texts.
Receive(t, Texts) ==
    /\ req[t].pc = "idle"
    /\ \E txt \in Texts :
          req' = [req EXCEPT ![t] = [Idle EXCEPT !.pc = "received", !.text = txt]]
    /\ obs' = [obs EXCEPT ![t] = NoEffects]
    /\ call' = [call EXCEPT ![t] = NoCall]
    /\ UNCHANGED <<pymorphy_analyzer, cache, constructed, constructionFailed, absentComputed>>

\* AnalyzeRequest's min_length, then `text = req.text.strip(); if not text`.
Validate(t) ==
    /\ req[t].pc = "received"
    /\ req' = [req EXCEPT ![t] =
                 IF Len(req[t].text) < min_length
                 THEN [@ EXCEPT !.pc = "rejected", !.status = 422]
                 ELSE IF Strip(req[t].text) = <<>>
                 THEN [@ EXCEPT !.pc = "rejected", !.status = 400]
                 ELSE [@ EXCEPT !.pc = "engine", !.stripped = Strip(req[t].text)]]
    /\ UNCHANGED <<pymorphy_analyzer, cache, obs, call, constructed, constructionFailed,
                   absentComputed>>

\* Faulty variant: the lazy construction is skipped.
NeverConstruct(analyzer) == FALSE

\* `if _pymorphy_analyzer is None`
NeedsConstruction(analyzer) == analyzer = NoAnalyzer

\* The imports of razdel and pymorphy3, which may fail, then the test of
\* the global.
EnterEngine(t) ==
    /\ req[t].pc = "engine"
    /\ \/ req' = [req EXCEPT ![t].pc = "failed", ![t].status = 500]
       \/ req' = [req EXCEPT ![t].pc =
                     IF NeedsConstruction(pymorphy_analyzer)
                     THEN "construct" ELSE "tokenize"]
    /\ UNCHANGED <<pymorphy_analyzer, cache, obs, call, constructed,
                   constructionFailed, absentComputed>>

\* `_pymorphy_analyzer = MorphAnalyzer()`: an instance is stored, or the
\* constructor raises and the global stays as it was.
Construct(t) ==
    /\ req[t].pc = "construct"
    /\ \/ /\ constructed' = constructed + 1
          /\ pymorphy_analyzer' = constructed + 1
          /\ req' = [req EXCEPT ![t].pc = "tokenize"]
          /\ obs' = [obs EXCEPT ![t].constructs = @ + 1]
          /\ UNCHANGED constructionFailed
       \/ /\ req' = [req EXCEPT ![t].pc = "failed", ![t].status = 500]
          /\ constructionFailed' = TRUE
          /\ UNCHANGED <<pymorphy_analyzer, constructed, obs>>
    /\ UNCHANGED <<cache, call, absentComputed>>

\* The loop building alpha_tokens.
Tokenize(t) ==
    /\ req[t].pc = "tokenize"
    /\ req' = [req EXCEPT ![t].pc = "loop",
                          ![t].alpha_tokens = AlphaTokens(RazdelTokenize(req[t].stripped))]
    /\ UNCHANGED <<pymorphy_analyzer, cache, obs, call, constructed, constructionFailed,
                   absentComputed>>

\* The loop body after `lemma, pos = _analyze_token_cached(t)`.
Consume(r, result) ==
    LET lemma == result[1]
        pos == result[2]
    IN  IF lemma = NoneVal
        THEN [r EXCEPT !.pc = "loop", !.idx = @ + 1]
        ELSE IF IsStop(pos)
        THEN [r EXCEPT !.pc = "loop", !.idx = @ + 1,
                       !.lemmas_raw = Append(@, lemma)]
        ELSE [r EXCEPT !.pc = "loop", !.idx = @ + 1,
                       !.lemmas_raw = Append(@, lemma),
                       !.lemmas = Append(@, lemma)]

\* _analyze_token_cached(t), the wrapper's lookup: a hit returns the stored
\* result; a miss goes on to call the wrapped function.
Lookup(t) ==
    /\ req[t].pc = "loop"
    /\ req[t].idx <= Len(req[t].alpha_tokens)
    /\ LET token == req[t].alpha_tokens[req[t].idx]
       IN  IF HasKey(cache, token)
           THEN /\ cache' = LruHit(cache, token)
                /\ req' = [req EXCEPT ![t] = Consume([@ EXCEPT !.result = CacheValue(cache, token)],
                                                     CacheValue(cache, token))]
                /\ obs' = [obs EXCEPT ![t].hits = @ + 1]
                /\ call' = [call EXCEPT ![t] = [token |-> token, hit |-> TRUE,
                                                parses |-> 0, inserts |-> 0,
                                                done |-> TRUE]]
           ELSE /\ cache' = cache
                /\ req' = [req EXCEPT ![t].pc = "call"]
                /\ obs' = [obs EXCEPT ![t].misses = @ + 1]
                /\ call' = [call EXCEPT ![t] = [token |-> token, hit |-> FALSE,
                                                parses |-> 0, inserts |-> 0,
                                                done |-> FALSE]]
    /\ UNCHANGED <<pymorphy_analyzer, constructed, constructionFailed, absentComputed>>

\* The wrapped function runs, outside the cache's lock.
Compute(t) ==
    /\ req[t].pc = "call"
    /\ LET token == req[t].alpha_tokens[req[t].idx]
           n == IF pymorphy_analyzer = NoAnalyzer THEN 0 ELSE 1
       IN  /\ req' = [req EXCEPT ![t].pc = "store",
                                 ![t].result = AnalyzeToken(pymorphy_analyzer, token),
                                 ![t].absent = (pymorphy_analyzer = NoAnalyzer)]
           /\ obs' = [obs EXCEPT ![t].parses = @ + n]
           /\ call' = [call EXCEPT ![t].parses = @ + n]
    /\ UNCHANGED <<pymorphy_analyzer, cache, constructed, constructionFailed, absentComputed>>

\* The wrapper stores the result and returns it.
Store(t) ==
    /\ req[t].pc = "store"
    /\ LET token == req[t].alpha_tokens[req[t].idx]
           n == Len(SelectSeq(LruStore(cache, token, req[t].result),
                              LAMBDA e : e.key = token))
                - Len(SelectSeq(cache, LAMBDA e : e.key = token))
       IN  /\ cache' = LruStore(cache, token, req[t].result)
           /\ req' = [req EXCEPT ![t] = Consume(@, @.result)]
           /\ obs' = [obs EXCEPT ![t].inserts = @ + n]
           /\ call' = [call EXCEPT ![t].inserts = @ + n, ![t].done = TRUE]
           /\ absentComputed' =
                (IF n > 0 /\ req[t].absent
                 THEN absentComputed \cup {token}
                 ELSE absentComputed) \cap Keys(cache')
    /\ UNCHANGED <<pymorphy_analyzer, constructed, constructionFailed>>

\* Everything after the loop: the counters, the ranked lists, the response.
Aggregate(t) ==
    /\ req[t].pc = "loop"
    /\ req[t].idx > Len(req[t].alpha_tokens)
    /\ LET r == req[t]
           counts_raw == Counter(r.lemmas_raw)
           counts_filtered == Counter(r.lemmas)
           bigram_counts == BigramCounts(r.lemmas)
           trigram_counts == TrigramCounts(r.lemmas)
       IN  req' = [req EXCEPT ![t] =
              [@ EXCEPT
                 !.pc = "done",
                 !.status = 200,
                 !.counts = [raw |-> counts_raw, filtered |-> counts_filtered,
                             bigram |-> bigram_counts, trigram |-> trigram_counts],
                 !.response =
                    [language |-> "ru",
                     total_tokens |-> Len(r.lemmas_raw),
                     unique_lemmas |-> Len(counts_raw),
                     items |-> MostCommon(counts_raw),
                     items_filtered |-> MostCommon(counts_filtered),
                     total_bigrams |-> WindowTotal(r.lemmas, 1),
                     unique_bigrams |-> Len(bigram_counts),
                     bigrams |-> Displayed(MostCommon(bigram_counts)),
                     total_trigrams |-> WindowTotal(r.lemmas, 2),
                     unique_trigrams |-> Len(trigram_counts),
                     trigrams |-> Displayed(MostCommon(trigram_counts))]]]
    /\ UNCHANGED <<pymorphy_analyzer, cache, obs, call, constructed, constructionFailed,
                   absentComputed>>

\* The response (or the error) has been sent; the thread is free again.
Respond(t) ==
    /\ req[t].pc \in {"done", "rejected", "failed"}
    /\ req' = [req EXCEPT ![t] = Idle]
    /\ obs' = [obs EXCEPT ![t] = NoEffects]
    /\ call' = [call EXCEPT ![t] = NoCall]
    /\ UNCHANGED <<pymorphy_analyzer, cache, constructed, constructionFailed, absentComputed>>

\* ------------------------------------------------------------- specifications
\* The server: every thread serves one request after another.
Next ==
    \E t \in Threads :
        \/ Receive(t, ConcTexts)
        \/ Validate(t)
        \/ EnterEngine(t)
        \/ Construct(t)
        \/ Tokenize(t)
        \/ Lookup(t)
        \/ Compute(t)
        \/ Store(t)
        \/ Aggregate(t)
        \/ Respond(t)

Spec == Init /\ [][Next]_vars

\* The first request of a fresh process, served by one thread.
NextOne ==
    \/ Receive(1, SeqTexts)
    \/ Validate(1)
    \/ EnterEngine(1)
    \/ Construct(1)
    \/ Tokenize(1)
    \/ Lookup(1)
    \/ Compute(1)
    \/ Store(1)
    \/ Aggregate(1)

SpecOne == Init /\ [][NextOne]_vars

\* ------------------------------------------------------------- claims
Done(t) == req[t].pc = "done"

\* C1: two completed analyze requests for the same text hold the same
\* response, whatever the token cache held when each of them ran (empty,
\* warm or with entries evicted): the cache does not show in the output.
C1_SameTextSameResponse ==
    \A t1, t2 \in Threads :
        (Done(t1) /\ Done(t2) /\ req[t1].text = req[t2].text)
            => req[t1].response = req[t2].response

\* One request resolved its tokens by misses only, the other by hits only.
C1_ColdAndWarm ==
    \E t1, t2 \in Threads :
        /\ Done(t1) /\ Done(t2) /\ req[t1].text = req[t2].text
        /\ obs[t1].misses > 0 /\ obs[t1].hits = 0
        /\ obs[t2].hits > 0 /\ obs[t2].misses = 0
        /\ req[t1].response.total_tokens > 0

\* C2: the token cache never holds more than maxsize entries, nor two
\* entries for one token, under any interleaving of the requests.
C2_CacheBounded ==
    /\ Len(cache) <= maxsize
    /\ Cardinality(Keys(cache)) = Len(cache)

\* The cache is full and a thread is about to store a token that another
\* thread stored while it was computing.
C2_RaceOnFullCache ==
    \E t \in Threads :
        /\ req[t].pc = "store"
        /\ HasKey(cache, req[t].alpha_tokens[req[t].idx])
        /\ Len(cache) = maxsize

\* C3: the morphological analyzer is constructed at most once.
C3_ConstructedAtMostOnce == constructed <= 1

InPipeline(t) == req[t].pc \in {"tokenize", "loop", "call", "store", "done"}

\* C4: a request that fails on the engine has not touched the token cache
\* and leaves no record of the failure: the global holds an instance or
\* nothing, a request reaches the pipeline only with an instance in place
\* (so with none it constructs again), and no cache entry was computed
\* without an analyzer.
C4_FailureLeavesNoTrace ==
    /\ absentComputed = {}
    /\ \A t \in Threads :
          req[t].pc = "failed" =>
              /\ obs[t].inserts = 0 /\ obs[t].hits = 0 /\ obs[t].misses = 0
              /\ req[t].response = NoResponse
    /\ IF constructed = 0
       THEN pymorphy_analyzer = NoAnalyzer
       ELSE pymorphy_analyzer \in 1..constructed
    /\ \A t \in Threads : InPipeline(t) => pymorphy_analyzer # NoAnalyzer
    /\ \A i \in 1..Len(cache) : cache[i].val = AnalyzeToken(1, cache[i].key)

\* A construction failed, and a request that then constructed the analyzer
\* itself has resolved and cached a lemma.
C4_RetryAfterFailure ==
    \E t \in Threads :
        /\ constructionFailed
        /\ Done(t)
        /\ obs[t].constructs = 1 /\ constructed = 1
        /\ req[t].response.total_tokens > 0
        /\ obs[t].inserts > 0
        /\ \E t2 \in Threads : req[t2].pc = "failed" /\ obs[t2].misses = 0

RECURSIVE SumCounts(_)
SumCounts(cnt) == IF cnt = <<>> THEN 0 ELSE Head(cnt)[2] + SumCounts(Tail(cnt))

\* The k-grams of a stream: the windows of k consecutive lemmas, in order.
NGrams(stream, k) ==
    [i \in 1..(IF Len(stream) >= k THEN Len(stream) - k + 1 ELSE 0) |->
        IF k = 1 THEN stream[i]
        ELSE IF k = 2 THEN stream[i] \o " " \o stream[i + 1]
        ELSE stream[i] \o " " \o stream[i + 1] \o " " \o stream[i + 2]]

\* C5: for k = 1, 2, 3 the counts of the k-gram table sum to the reported
\* total: total_tokens = len(raw stream), and total_bigrams, total_trigrams
\* = max(len(content stream) - (k-1), 0); every window is a key of its table.
C5_CountsSumToTotals ==
    \A t \in Threads :
        Done(t) =>
            LET r == req[t]
                n == Len(r.lemmas)
            IN  /\ SumCounts(r.response.items) = r.response.total_tokens
                /\ r.response.total_tokens = Len(r.lemmas_raw)
                /\ SumCounts(r.counts.bigram) = r.response.total_bigrams
                /\ r.response.total_bigrams = (IF n >= 1 THEN n - 1 ELSE 0)
                /\ SumCounts(r.counts.trigram) = r.response.total_trigrams
                /\ r.response.total_trigrams = (IF n >= 2 THEN n - 2 ELSE 0)
                /\ \A i \in 1..Len(NGrams(r.lemmas, 2)) :
                      NGrams(r.lemmas, 2)[i] \in CounterKeys(r.counts.bigram)
                /\ \A i \in 1..Len(NGrams(r.lemmas, 3)) :
                      NGrams(r.lemmas, 3)[i] \in CounterKeys(r.counts.trigram)

\* A response with a repeated bigram and a repeated trigram.
C5_RepeatedWindows ==
    \E t \in Threads :
        /\ Done(t)
        /\ req[t].response.total_trigrams = 2
        /\ Len(req[t].counts.trigram) = 1
        /\ Len(req[t].counts.bigram) = 1
        /\ req[t].response.total_bigrams = 3

FirstSeen(key, grams) ==
    CHOOSE i \in 1..Len(grams) :
        grams[i] = key /\ \A j \in 1..(i - 1) : grams[j] # key

Ranked(list, grams) ==
    \A i, j \in 1..Len(list) :
        i < j =>
            /\ list[i][2] >= list[j][2]
            /\ list[i][2] = list[j][2] =>
                   FirstSeen(list[i][1], grams) < FirstSeen(list[j][1], grams)

Entries(list) == {list[i] : i \in 1..Len(list)}

\* C7: bigrams and trigrams list exactly the table entries with count > 1,
\* unique_bigrams and unique_trigrams count the distinct keys of the
\* unfiltered tables, and items lists the whole unigram table.
C7_DisplayThreshold ==
    \A t \in Threads :
        Done(t) =>
            LET r == req[t]
            IN  /\ Entries(r.response.bigrams) =
                      {e \in Entries(r.counts.bigram) : e[2] > 1}
                /\ Len(r.response.bigrams) = Cardinality(Entries(r.response.bigrams))
                /\ r.response.unique_bigrams = Cardinality(CounterKeys(r.counts.bigram))
                /\ Entries(r.response.trigrams) =
                      {e \in Entries(r.counts.trigram) : e[2] > 1}
                /\ Len(r.response.trigrams) = Cardinality(Entries(r.response.trigrams))
                /\ r.response.unique_trigrams = Cardinality(CounterKeys(r.counts.trigram))
                /\ Entries(r.response.items) = Entries(r.counts.raw)
                /\ Len(r.response.items) = Cardinality(CounterKeys(r.counts.raw))
                /\ r.response.unique_lemmas = Len(r.response.items)

\* A repeated bigram is displayed, a singleton bigram is counted but not
\* displayed, and items holds a lemma seen once.
C7_SingletonSuppressed ==
    \E t \in Threads :
        /\ Done(t)
        /\ Len(req[t].response.bigrams) = 1
        /\ req[t].response.unique_bigrams = 2
        /\ \E i \in 1..Len(req[t].response.items) : req[t].response.items[i][2] = 1

Blank(text) == \A i \in 1..Len(text) : text[i] = Space

\* C8: a request whose text is empty or whitespace-only goes no further
\* than its rejection as a client error: no response body, no analyzer
\* construction or invocation, no cache lookup or insertion.
C8_BlankRejected ==
    \A t \in Threads :
        (req[t].pc # "idle" /\ Blank(req[t].text)) =>
            /\ req[t].pc \in {"received", "rejected"}
            /\ req[t].pc = "rejected" => req[t].status \in {400, 422}
            /\ req[t].pc = "received" => req[t].status = 0
            /\ req[t].response = NoResponse
            /\ obs[t] = NoEffects
            /\ call[t] = NoCall

\* A whitespace-only text of several segments has been rejected.
C8_WhitespaceRejected ==
    \E t \in Threads :
        /\ req[t].pc = "rejected"
        /\ Len(req[t].text) >= 2
        /\ req[t].status = 400

StopCategories == {"PREP", "CONJ", "PRCL", "INTJ"}

RECURSIVE ExpectedRaw(_)
ExpectedRaw(tokens) ==
    IF tokens = <<>> THEN <<>>
    ELSE LET p == Parse(Head(tokens))
         IN  IF p = <<>> THEN ExpectedRaw(Tail(tokens))
             ELSE <<p[1].normal_form>> \o ExpectedRaw(Tail(tokens))

RECURSIVE ExpectedContent(_)
ExpectedContent(tokens) ==
    IF tokens = <<>> THEN <<>>
    ELSE LET p == Parse(Head(tokens))
         IN  IF p = <<>> \/ p[1].POS \in StopCategories
             THEN ExpectedContent(Tail(tokens))
             ELSE <<p[1].normal_form>> \o ExpectedContent(Tail(tokens))

\* C9: of the tokens handled so far, those without a lemma are in neither
\* stream, those of a stop category are in the raw stream only, and all
\* others (a token of no category included) are in both, in token order;
\* "kot i dom" gives the content stream kot, dom and the one bigram window
\* "kot dom", with all three lemmas in the raw stream.
C9_StreamsByCategory ==
    \A t \in Threads :
        /\ req[t].pc \in {"loop", "call", "store", "done"} =>
              LET handled == SubSeq(req[t].alpha_tokens, 1, req[t].idx - 1)
              IN  /\ req[t].lemmas_raw = ExpectedRaw(handled)
                  /\ req[t].lemmas = ExpectedContent(handled)
        /\ (Done(t) /\ req[t].alpha_tokens = <<"koty", "i", "dom">>) =>
              /\ req[t].lemmas = <<"kot", "dom">>
              /\ req[t].lemmas_raw = <<"kot", "i", "dom">>
              /\ req[t].counts.bigram = << <<"kot dom", 1>> >>
              /\ req[t].response.total_bigrams = 1
              /\ req[t].response.total_tokens = 3

\* A finished run over an unparsed token, a conjunction between two content
\* words and a token of no category.
C9_AllKindsOfToken ==
    \E t \in Threads :
        /\ Done(t)
        /\ req[t].alpha_tokens = <<"koty", "i", "cat", "qq">>
        /\ req[t].response.total_bigrams = 1

ResolveReturns(t) ==
    /\ req[t].pc \in {"loop", "store"}
    /\ req'[t].pc = "loop"
    /\ req'[t].idx = req[t].idx + 1

ResolvePost(t) ==
    LET token == req[t].alpha_tokens[req[t].idx]
        e == [key |-> token, val |-> req'[t].result]
    IN  IF req[t].pc = "loop"
        THEN \* a hit
             /\ HasKey(cache, token)
             /\ call'[t].hit /\ call'[t].parses = 0 /\ call'[t].inserts = 0
             /\ e \in Entries(cache)
             /\ Len(cache') = Len(cache)
             /\ Entries(cache') = Entries(cache)
             /\ cache'[Len(cache')] = e
        ELSE \* a miss
             /\ ~call'[t].hit /\ call'[t].parses = 1
             /\ IF HasKey(cache, token)
                THEN call'[t].inserts = 0 /\ cache' = cache
                ELSE /\ call'[t].inserts = 1
                     /\ cache' = Append(IF Len(cache) = maxsize
                                        THEN Tail(cache) ELSE cache, e)

====
